---- MODULE Spec2Model ----
(***************************************************************************)
(* Model of the `subset` crate: views over a backing slice `set` selected  *)
(* by an index slice `idxs`, in four variants (multi / unique, read-only / *)
(* mutable backing), their constructors, conversions and iterators.        *)
(***************************************************************************)
EXTENDS Integers, Sequences, FiniteSets, TLC

(* ------------------------------ bounds -------------------------------- *)
\* longest backing slice
MaxSet == 2
\* longest index slice
MaxLen == 3
\* element values are 0..MaxVal
MaxVal == 1

Values == 0..MaxVal
Indexes == 0..MaxSet          \* MaxSet itself is out of range for every set
SeqsUpTo(S, n) == UNION {[1..k -> S] : k \in 0..n}

(* ------------------------- types of the crate -------------------------- *)
MultiSubset     == "multi::Subset"
MultiSubsetMut  == "multi::SubsetMut"
UniqueSubset    == "unique::Subset"
UniqueSubsetMut == "unique::SubsetMut"

ReadOnlyKinds == {MultiSubset, UniqueSubset}
MutableKinds  == {MultiSubsetMut, UniqueSubsetMut}
MultiKinds    == {MultiSubset, MultiSubsetMut}
UniqueKinds   == {UniqueSubset, UniqueSubsetMut}

\* no view: the slot of a moved-out, dropped or never constructed value
NoView == [kind |-> "none", set |-> <<>>, idxs |-> <<>>]

\* Result<View, SubsetError>, with "Panic" for a call that did not return
Ok(v)      == [status |-> "Ok", view |-> v]
Err(e)     == [status |-> e, view |-> NoView]
Panicked   == [status |-> "Panic", view |-> NoView]

(* --------------------------- index validator --------------------------- *)
\* is_unique(idxs): a hash set of the values is as large as the list
is_unique(i) == ~(Cardinality({i[k] : k \in 1..Len(i)}) < Len(i))

\* mutant: the bounds test lets an index equal to the length through
AnyOutOfBounds_offByOne(s, i) == \E k \in 1..Len(i) : i[k] > Len(s)

\* idxs.iter().any(|v| *v >= set_size)
AnyOutOfBounds(s, i) == \E k \in 1..Len(i) : i[k] >= Len(s)

(* ---------------------------- multi::Subset ---------------------------- *)
MultiSubset_new_unchecked(s, i) == [kind |-> MultiSubset, set |-> s, idxs |-> i]

MultiSubset_new(s, i, sz) ==
    IF sz = 0 THEN Panicked
    ELSE IF AnyOutOfBounds(s, i) THEN Err("OutOfBounds")
    ELSE Ok(MultiSubset_new_unchecked(s, i))

\* mutant: the wrapper made is the one of to_unique_mut_unchecked
MultiSubset_to_unique_unchecked_mut(v) ==
    [kind |-> UniqueSubsetMut, set |-> v.set, idxs |-> v.idxs]

\* unique::Subset { m: self }
MultiSubset_to_unique_unchecked(v) ==
    [kind |-> UniqueSubset, set |-> v.set, idxs |-> v.idxs]

(* --------------------------- multi::SubsetMut -------------------------- *)
MultiSubsetMut_new_unchecked(s, i) == [kind |-> MultiSubsetMut, set |-> s, idxs |-> i]

\* mutant: the size of the element type is not asserted
MultiSubsetMut_new_noAssert(s, i, sz) ==
    IF AnyOutOfBounds(s, i) THEN Err("OutOfBounds")
    ELSE Ok(MultiSubsetMut_new_unchecked(s, i))

MultiSubsetMut_new(s, i, sz) ==
    IF sz = 0 THEN Panicked
    ELSE IF AnyOutOfBounds(s, i) THEN Err("OutOfBounds")
    ELSE Ok(MultiSubsetMut_new_unchecked(s, i))

\* From<SubsetMut> for Subset: Self { set: s.set, idxs: s.idxs }
From_MultiSubsetMut_for_MultiSubset(v) ==
    [kind |-> MultiSubset, set |-> v.set, idxs |-> v.idxs]

\* unique::Subset { m: self.into() }
MultiSubsetMut_to_unique_unchecked(v) ==
    LET m == From_MultiSubsetMut_for_MultiSubset(v)
    IN  [kind |-> UniqueSubset, set |-> m.set, idxs |-> m.idxs]

\* unique::SubsetMut { m: self }
MultiSubsetMut_to_unique_mut_unchecked(v) ==
    [kind |-> UniqueSubsetMut, set |-> v.set, idxs |-> v.idxs]

(* ------------------- demotions unique -> multi (From) ------------------ *)
\* From<unique::Subset> for Subset: s.m
From_UniqueSubset_for_MultiSubset(v) ==
    [kind |-> MultiSubset, set |-> v.set, idxs |-> v.idxs]

\* From<unique::SubsetMut> for SubsetMut: s.m
From_UniqueSubsetMut_for_MultiSubsetMut(v) ==
    [kind |-> MultiSubsetMut, set |-> v.set, idxs |-> v.idxs]

\* From<unique::SubsetMut> for Subset: s.m.into()
From_UniqueSubsetMut_for_MultiSubset(v) ==
    From_MultiSubsetMut_for_MultiSubset(From_UniqueSubsetMut_for_MultiSubsetMut(v))

(* ------------------------ unique: conversions -------------------------- *)
\* From<SubsetMut> for unique::Subset: Self { m: s.m.into() }
From_UniqueSubsetMut_for_UniqueSubset(v) ==
    LET m == From_MultiSubsetMut_for_MultiSubset(From_UniqueSubsetMut_for_MultiSubsetMut(v))
    IN  [kind |-> UniqueSubset, set |-> m.set, idxs |-> m.idxs]

\* mutant: the promotion takes the validator's answer the wrong way round
TryFrom_MultiSubset_for_UniqueSubset_negated(v) ==
    IF ~is_unique(v.idxs) THEN Ok(MultiSubset_to_unique_unchecked(v))
    ELSE Err("NotUnique")

\* mutant: the promotion does not run the validator
TryFrom_MultiSubset_for_UniqueSubset_unchecked(v) ==
    Ok(MultiSubset_to_unique_unchecked(v))

TryFrom_MultiSubset_for_UniqueSubset(v) ==
    IF is_unique(v.idxs) THEN Ok(MultiSubset_to_unique_unchecked(v))
    ELSE Err("NotUnique")

\* mutant: the promotion takes the validator's answer the wrong way round
TryFrom_MultiSubsetMut_for_UniqueSubset_negated(v) ==
    IF ~is_unique(v.idxs) THEN Ok(MultiSubsetMut_to_unique_unchecked(v))
    ELSE Err("NotUnique")

TryFrom_MultiSubsetMut_for_UniqueSubset(v) ==
    IF is_unique(v.idxs) THEN Ok(MultiSubsetMut_to_unique_unchecked(v))
    ELSE Err("NotUnique")

\* mutant: the promotion does not run the validator
TryFrom_MultiSubsetMut_for_UniqueSubsetMut_unchecked(v) ==
    Ok(MultiSubsetMut_to_unique_mut_unchecked(v))

TryFrom_MultiSubsetMut_for_UniqueSubsetMut(v) ==
    IF is_unique(v.idxs) THEN Ok(MultiSubsetMut_to_unique_mut_unchecked(v))
    ELSE Err("NotUnique")

(* ------------------------ unique: constructors ------------------------- *)
\* mutant: uniqueness is tested before the bounds
UniqueSubset_new_uniqueFirst(s, i, sz) ==
    IF sz = 0 THEN Panicked
    ELSE IF ~is_unique(i) THEN Err("NotUnique")
    ELSE IF AnyOutOfBounds(s, i) THEN Err("OutOfBounds")
    ELSE Ok(MultiSubset_to_unique_unchecked(MultiSubset_new_unchecked(s, i)))

\* multi::Subset::new(set, idxs)?.try_into()
UniqueSubset_new(s, i, sz) ==
    LET r == MultiSubset_new(s, i, sz)
    IN  IF r.status # "Ok" THEN r
        ELSE TryFrom_MultiSubset_for_UniqueSubset(r.view)

\* multi::Subset::new_unchecked(set, idxs).to_unique_unchecked()
UniqueSubset_new_unchecked(s, i) ==
    MultiSubset_to_unique_unchecked(MultiSubset_new_unchecked(s, i))

\* mutant: the checked multi view is wrapped without try_into()
UniqueSubsetMut_new_boundsOnly(s, i, sz) ==
    LET r == MultiSubsetMut_new(s, i, sz)
    IN  IF r.status # "Ok" THEN r
        ELSE Ok(MultiSubsetMut_to_unique_mut_unchecked(r.view))

\* multi::SubsetMut::new(set, idxs)?.try_into()
UniqueSubsetMut_new(s, i, sz) ==
    LET r == MultiSubsetMut_new(s, i, sz)
    IN  IF r.status # "Ok" THEN r
        ELSE TryFrom_MultiSubsetMut_for_UniqueSubsetMut(r.view)

\* multi::SubsetMut::new_unchecked(set, idxs).to_unique_mut_unchecked()
UniqueSubsetMut_new_unchecked(s, i) ==
    MultiSubsetMut_to_unique_mut_unchecked(MultiSubsetMut_new_unchecked(s, i))

(* ------------------- crate root: Subset over two Vecs ------------------ *)
LibSubset == "subset::Subset"

\* Self { set: set, idxs: idxs }
LibSubset_new_unchecked(s, i) == [kind |-> LibSubset, set |-> s, idxs |-> i]

\* mutant: the bounds are tested before the uniqueness
LibSubset_new_boundsFirst(s, i) ==
    IF \E k \in 1..Len(i) : i[k] >= Len(s) THEN Err("OutOfBounds")
    ELSE IF Cardinality({i[k] : k \in 1..Len(i)}) < Len(i) THEN Err("NotUnique")
    ELSE Ok([kind |-> LibSubset, set |-> s, idxs |-> i])

\* uniques: HashSet<usize> of the indices; NotUnique if it is smaller than
\* idxs, else OutOfBounds if any index >= set.len(), else Ok
LibSubset_new(s, i) ==
    LET set_size == Len(s)
        uniques == {i[k] : k \in 1..Len(i)}
    IN  IF Cardinality(uniques) < Len(i) THEN Err("NotUnique")
        ELSE IF \E k \in 1..Len(i) : i[k] >= set_size THEN Err("OutOfBounds")
        ELSE Ok([kind |-> LibSubset, set |-> s, idxs |-> i])

(* ------------------------------ iterators ------------------------------ *)
NoIter == [kind |-> "none", idxs |-> <<>>, front |-> 0, back |-> 0]

\* Iter { ptr: self.set.as_ptr(), iter: self.idxs.iter() }
\* the slice iterator is the pair of cursors front..back over idxs
Subset_iter(v) == [kind |-> "Iter", idxs |-> v.idxs, front |-> 0, back |-> Len(v.idxs)]

\* IterMut { ptr: self.m.set.as_mut_ptr(), iter: self.m.idxs.iter() }
SubsetMut_iter_mut(v) == [kind |-> "IterMut", idxs |-> v.idxs, front |-> 0, back |-> Len(v.idxs)]

\* a value outside the element type: what a read outside the slice may give
Undef == -1

\* mutant: the offset is one element short
Deref_offByOne(s, idx) ==
    IF idx >= 1 /\ idx - 1 < Len(s) THEN {s[idx]} ELSE Values \cup {Undef}

\* *self.ptr.offset(idx): the element at position idx of the slice; outside
\* the slice the read is undefined behaviour and may produce anything
Deref(s, idx) == IF idx < Len(s) THEN {s[idx + 1]} ELSE Values \cup {Undef}

NoRet == [tag |-> "NoCall", end |-> "-", k |-> 0, pos |-> 0, val |-> 0]
RetNone(e) == [tag |-> "None", end |-> e, k |-> 0, pos |-> 0, val |-> 0]
RetSome(e, k, p, x) == [tag |-> "Some", end |-> e, k |-> k, pos |-> p, val |-> x]
\* a reference to memory outside the slice
RetUB(e, k, p, x) == [tag |-> "UB", end |-> e, k |-> k, pos |-> p, val |-> x]
Yield(s, e, k, p, x) == IF p < Len(s) THEN RetSome(e, k, p, x) ELSE RetUB(e, k, p, x)

(* -------------------------------- state -------------------------------- *)
VARIABLES
    set,        \* the caller's backing slice
    idxs,       \* the caller's index slice
    elemSize,   \* std::mem::size_of::<T>()
    view,       \* the live view, or NoView
    lastOp,     \* the last call that made, converted, read or borrowed the view
    result,     \* its status, when it was a constructor or a conversion
    got,        \* what it returned, when it was an accessor
    src,        \* the view it consumed, when it was a conversion
    origin,     \* the unique view whose demotion led to src, or NoView
    safe,       \* no unsafe fn was used to produce the live view
    iter,       \* the live iterator, or NoIter
    yielded,    \* what the live iterator returned in Some, in call order
    ret,        \* what the last next / next_back call returned
    wrote       \* the last write to the backing slice through the live view

vars == <<set, idxs, elemSize, view, result, lastOp, got, src, origin,
          safe, iter, yielded, ret, wrote>>

ElemSizes == {0, 1}
\* a zero-sized type has one value
ElemValues(sz) == IF sz = 0 THEN {0} ELSE Values
NoValue == <<>>
\* no write yet; else via "set" (subset.set()[pos] = val) or via "ref" (*r = val
\* for the reference r that IterMut yielded for position k of the index list)
NoWrite == [via |-> "none", k |-> 0, pos |-> 0, val |-> 0]

Init ==
    /\ elemSize \in ElemSizes
    /\ set \in SeqsUpTo(ElemValues(elemSize), MaxSet)
    /\ idxs \in SeqsUpTo(Indexes, MaxLen)
    /\ view = NoView
    /\ result = "none"
    /\ lastOp = "none"
    /\ got = NoValue
    /\ src = NoView
    /\ origin = NoView
    /\ safe = TRUE
    /\ iter = NoIter
    /\ yielded = <<>>
    /\ ret = NoRet
    /\ wrote = NoWrite

\* the program has neither panicked nor run into undefined behaviour
Running == result # "Panic" /\ ret.tag # "UB"

(* ----------------------------- constructors ---------------------------- *)
\* a constructor call on the caller's slices; r is what it returns
Construct(op, r, isSafe) ==
    /\ Running
    /\ view.kind = "none"
    /\ view' = r.view
    /\ result' = r.status
    /\ lastOp' = op
    /\ got' = NoValue
    /\ src' = NoView
    /\ origin' = NoView
    /\ safe' = isSafe
    /\ wrote' = NoWrite
    /\ UNCHANGED <<set, idxs, elemSize, iter, yielded, ret>>

MultiSubsetNew ==
    Construct("multi::Subset::new", MultiSubset_new(set, idxs, elemSize), TRUE)
MultiSubsetMutNew ==
    Construct("multi::SubsetMut::new", MultiSubsetMut_new(set, idxs, elemSize), TRUE)
UniqueSubsetNew ==
    Construct("unique::Subset::new", UniqueSubset_new(set, idxs, elemSize), TRUE)
UniqueSubsetMutNew ==
    Construct("unique::SubsetMut::new", UniqueSubsetMut_new(set, idxs, elemSize), TRUE)

MultiSubsetNewUnchecked ==
    Construct("multi::Subset::new_unchecked",
              Ok(MultiSubset_new_unchecked(set, idxs)), FALSE)
MultiSubsetMutNewUnchecked ==
    Construct("multi::SubsetMut::new_unchecked",
              Ok(MultiSubsetMut_new_unchecked(set, idxs)), FALSE)
UniqueSubsetNewUnchecked ==
    Construct("unique::Subset::new_unchecked",
              Ok(UniqueSubset_new_unchecked(set, idxs)), FALSE)
UniqueSubsetMutNewUnchecked ==
    Construct("unique::SubsetMut::new_unchecked",
              Ok(UniqueSubsetMut_new_unchecked(set, idxs)), FALSE)

LibSubsetNew ==
    Construct("subset::Subset::new", LibSubset_new(set, idxs), TRUE)
LibSubsetNewUnchecked ==
    Construct("subset::Subset::new_unchecked",
              Ok(LibSubset_new_unchecked(set, idxs)), FALSE)

(* ----------------------------- conversions ----------------------------- *)
\* the conversions unique -> multi that keep the mutability
Demotions == {"From<unique::Subset> for multi::Subset",
              "From<unique::SubsetMut> for multi::SubsetMut"}

\* a conversion consumes the live view of kind `from`; r is what it returns
Convert(op, from, r, isSafe) ==
    /\ Running
    /\ view.kind = from
    /\ iter.kind = "none"
    /\ view' = r.view
    /\ result' = r.status
    /\ lastOp' = op
    /\ got' = NoValue
    /\ src' = view
    /\ origin' = IF lastOp \in Demotions THEN src ELSE NoView
    /\ safe' = (safe /\ isSafe)
    /\ wrote' = NoWrite
    /\ UNCHANGED <<set, idxs, elemSize, iter, yielded, ret>>

FromMultiSubsetMutForMultiSubset ==
    Convert("From<multi::SubsetMut> for multi::Subset", MultiSubsetMut,
            Ok(From_MultiSubsetMut_for_MultiSubset(view)), TRUE)
FromUniqueSubsetForMultiSubset ==
    Convert("From<unique::Subset> for multi::Subset", UniqueSubset,
            Ok(From_UniqueSubset_for_MultiSubset(view)), TRUE)
FromUniqueSubsetMutForMultiSubset ==
    Convert("From<unique::SubsetMut> for multi::Subset", UniqueSubsetMut,
            Ok(From_UniqueSubsetMut_for_MultiSubset(view)), TRUE)
FromUniqueSubsetMutForMultiSubsetMut ==
    Convert("From<unique::SubsetMut> for multi::SubsetMut", UniqueSubsetMut,
            Ok(From_UniqueSubsetMut_for_MultiSubsetMut(view)), TRUE)
FromUniqueSubsetMutForUniqueSubset ==
    Convert("From<unique::SubsetMut> for unique::Subset", UniqueSubsetMut,
            Ok(From_UniqueSubsetMut_for_UniqueSubset(view)), TRUE)

TryFromMultiSubsetForUniqueSubset ==
    Convert("TryFrom<multi::Subset> for unique::Subset", MultiSubset,
            TryFrom_MultiSubset_for_UniqueSubset(view), TRUE)
TryFromMultiSubsetMutForUniqueSubset ==
    Convert("TryFrom<multi::SubsetMut> for unique::Subset", MultiSubsetMut,
            TryFrom_MultiSubsetMut_for_UniqueSubset(view), TRUE)
TryFromMultiSubsetMutForUniqueSubsetMut ==
    Convert("TryFrom<multi::SubsetMut> for unique::SubsetMut", MultiSubsetMut,
            TryFrom_MultiSubsetMut_for_UniqueSubsetMut(view), TRUE)

MultiSubsetToUniqueUnchecked ==
    Convert("multi::Subset::to_unique_unchecked", MultiSubset,
            Ok(MultiSubset_to_unique_unchecked(view)), FALSE)
MultiSubsetMutToUniqueUnchecked ==
    Convert("multi::SubsetMut::to_unique_unchecked", MultiSubsetMut,
            Ok(MultiSubsetMut_to_unique_unchecked(view)), FALSE)
MultiSubsetMutToUniqueMutUnchecked ==
    Convert("multi::SubsetMut::to_unique_mut_unchecked", MultiSubsetMut,
            Ok(MultiSubsetMut_to_unique_mut_unchecked(view)), FALSE)

\* the view goes out of use and its borrows are released
DropView ==
    /\ Running
    /\ view.kind # "none"
    /\ iter.kind = "none"
    /\ view' = NoView
    /\ result' = "none"
    /\ lastOp' = "none"
    /\ got' = NoValue
    /\ src' = NoView
    /\ origin' = NoView
    /\ safe' = TRUE
    /\ wrote' = NoWrite
    /\ UNCHANGED <<set, idxs, elemSize, iter, yielded, ret>>

(* ------------------------------ accessors ------------------------------ *)
\* set(): self.set
Subset_set(v) == v.set
\* idxs(): self.idxs
Subset_idxs(v) == v.idxs
\* is_unique(): is_unique(self.idxs)
Subset_is_unique(v) == is_unique(v.idxs)

\* an accessor call on the live view; x is what it returns
Access(op, kinds, x) ==
    /\ Running
    /\ view.kind \in kinds
    /\ iter.kind = "none"
    /\ lastOp' = op
    /\ result' = "none"
    /\ got' = x
    /\ src' = NoView
    /\ origin' = NoView
    /\ UNCHANGED <<set, idxs, elemSize, wrote, view, safe, iter, yielded, ret>>

Set      == Access("set", ReadOnlyKinds \cup MutableKinds, Subset_set(view))
Idxs     == Access("idxs", ReadOnlyKinds \cup MutableKinds, Subset_idxs(view))
IsUnique == Access("is_unique", MultiKinds, Subset_is_unique(view))

\* subset.set()[p] = x on a view that borrows the backing slice mutably;
\* log: whether the history variable wrote records the write
SetWriteAs(log) ==
    /\ Running
    /\ view.kind \in MutableKinds
    /\ iter.kind = "none"
    /\ \E p \in 1..Len(Subset_set(view)), x \in ElemValues(elemSize) :
         /\ view' = [view EXCEPT !.set[p] = x]
         /\ set' = [set EXCEPT ![p] = x]
         /\ wrote' = IF log THEN [via |-> "set", k |-> 0, pos |-> p - 1, val |-> x]
                          ELSE NoWrite
    /\ lastOp' = "set[]="
    /\ result' = "none"
    /\ got' = NoValue
    /\ src' = NoView
    /\ origin' = NoView
    /\ UNCHANGED <<idxs, elemSize, safe, iter, yielded, ret>>

SetWrite       == SetWriteAs(FALSE)
SetWriteLogged == SetWriteAs(TRUE)

(* ------------------------------ iteration ------------------------------ *)
\* iter(&self) of any of the four variants
IterNew ==
    /\ Running
    /\ view.kind # "none"
    /\ iter.kind = "none"
    /\ iter' = Subset_iter(view)
    /\ yielded' = <<>>
    /\ ret' = NoRet
    /\ lastOp' = "iter"
    /\ result' = "none"
    /\ got' = NoValue
    /\ src' = NoView
    /\ origin' = NoView
    /\ UNCHANGED <<set, idxs, elemSize, wrote, view, safe>>

\* iter_mut(&mut self) of unique::SubsetMut
IterMutNew ==
    /\ Running
    /\ view.kind = UniqueSubsetMut
    /\ iter.kind = "none"
    /\ iter' = SubsetMut_iter_mut(view)
    /\ yielded' = <<>>
    /\ ret' = NoRet
    /\ lastOp' = "iter_mut"
    /\ result' = "none"
    /\ got' = NoValue
    /\ src' = NoView
    /\ origin' = NoView
    /\ UNCHANGED <<set, idxs, elemSize, wrote, view, safe>>

\* mutant: the offset is the cursor, not the index under it
IterStepNext_byCursor(k) ==
    /\ Running
    /\ iter.kind = k
    /\ IF iter.front >= iter.back
       THEN /\ ret' = RetNone("front")
            /\ UNCHANGED <<iter, yielded>>
       ELSE LET idx == iter.front
            IN  \E x \in Deref(view.set, idx) :
                  /\ ret' = Yield(view.set, "front", iter.front + 1, idx, x)
                  /\ yielded' = Append(yielded, ret')
                  /\ iter' = [iter EXCEPT !.front = iter.front + 1]
    /\ UNCHANGED <<set, idxs, elemSize, wrote, view, result, lastOp, got, src, origin, safe>>

\* next(): self.iter.next() is None when the cursors have met, else the
\* index under the front cursor, which then advances
IterStepNext(k) ==
    /\ Running
    /\ iter.kind = k
    /\ IF iter.front >= iter.back
       THEN /\ ret' = RetNone("front")
            /\ UNCHANGED <<iter, yielded>>
       ELSE LET idx == iter.idxs[iter.front + 1]
            IN  \E x \in Deref(view.set, idx) :
                  /\ ret' = Yield(view.set, "front", iter.front + 1, idx, x)
                  /\ yielded' = Append(yielded, ret')
                  /\ iter' = [iter EXCEPT !.front = iter.front + 1]
    /\ UNCHANGED <<set, idxs, elemSize, wrote, view, result, lastOp, got, src, origin, safe>>

\* mutant: the back cursor retreats to the start whatever the front did
IterStepNextBack_ignoresFront(k) ==
    /\ Running
    /\ iter.kind = k
    /\ IF iter.back <= 0
       THEN /\ ret' = RetNone("back")
            /\ UNCHANGED <<iter, yielded>>
       ELSE LET idx == iter.idxs[iter.back]
            IN  \E x \in Deref(view.set, idx) :
                  /\ ret' = Yield(view.set, "back", iter.back, idx, x)
                  /\ yielded' = Append(yielded, ret')
                  /\ iter' = [iter EXCEPT !.back = iter.back - 1]
    /\ UNCHANGED <<set, idxs, elemSize, wrote, view, lastOp, result, got, src, origin, safe>>

\* next_back(): self.iter.next_back() is None when the cursors have met,
\* else the index under the back cursor, which then retreats
IterStepNextBack(k) ==
    /\ Running
    /\ iter.kind = k
    /\ IF iter.front >= iter.back
       THEN /\ ret' = RetNone("back")
            /\ UNCHANGED <<iter, yielded>>
       ELSE LET idx == iter.idxs[iter.back]
            IN  \E x \in Deref(view.set, idx) :
                  /\ ret' = Yield(view.set, "back", iter.back, idx, x)
                  /\ yielded' = Append(yielded, ret')
                  /\ iter' = [iter EXCEPT !.back = iter.back - 1]
    /\ UNCHANGED <<set, idxs, elemSize, wrote, view, result, lastOp, got, src, origin, safe>>

IterNext        == IterStepNext("Iter")
IterNextBack    == IterStepNextBack("Iter")
IterMutNext     == IterStepNext("IterMut")
IterMutNextBack == IterStepNextBack("IterMut")

\* what the reference r reads once x is stored at position p
Reread(r, p, x) == IF r.tag = "Some" /\ r.pos = p THEN [r EXCEPT !.val = x] ELSE r

\* *r = x for a reference r that the live IterMut has yielded: the store goes
\* to the address r was made from, ptr.offset(idx)
IterMutWrite ==
    /\ Running
    /\ iter.kind = "IterMut"
    /\ \E j \in 1..Len(yielded), x \in ElemValues(elemSize) :
         LET r == yielded[j] IN
         /\ view' = [view EXCEPT !.set[r.pos + 1] = x]
         /\ set' = [set EXCEPT ![r.pos + 1] = x]
         /\ yielded' = [i \in 1..Len(yielded) |-> Reread(yielded[i], r.pos, x)]
         /\ ret' = Reread(ret, r.pos, x)
         /\ wrote' = [via |-> "ref", k |-> r.k, pos |-> r.pos, val |-> x]
    /\ UNCHANGED <<idxs, elemSize, result, lastOp, got, src, origin, safe, iter>>

\* the iterator goes out of use
DropIter ==
    /\ Running
    /\ iter.kind # "none"
    /\ iter' = NoIter
    /\ yielded' = <<>>
    /\ ret' = NoRet
    /\ UNCHANGED <<set, idxs, elemSize, wrote, view, result, lastOp, got, src, origin, safe>>

Next ==
    \/ MultiSubsetNew
    \/ MultiSubsetMutNew
    \/ UniqueSubsetNew
    \/ UniqueSubsetMutNew
    \/ MultiSubsetNewUnchecked
    \/ MultiSubsetMutNewUnchecked
    \/ UniqueSubsetNewUnchecked
    \/ UniqueSubsetMutNewUnchecked
    \/ FromMultiSubsetMutForMultiSubset
    \/ FromUniqueSubsetForMultiSubset
    \/ FromUniqueSubsetMutForMultiSubset
    \/ FromUniqueSubsetMutForMultiSubsetMut
    \/ FromUniqueSubsetMutForUniqueSubset
    \/ TryFromMultiSubsetForUniqueSubset
    \/ TryFromMultiSubsetMutForUniqueSubset
    \/ TryFromMultiSubsetMutForUniqueSubsetMut
    \/ MultiSubsetToUniqueUnchecked
    \/ MultiSubsetMutToUniqueUnchecked
    \/ MultiSubsetMutToUniqueMutUnchecked
    \/ DropView
    \/ Set
    \/ Idxs
    \/ IsUnique
    \/ SetWrite
    \/ IterNew
    \/ IterMutNew
    \/ IterNext
    \/ IterNextBack
    \/ IterMutNext
    \/ IterMutNextBack
    \/ DropIter

Spec == Init /\ [][Next]_vars

\* the callers of the crate root's Subset constructors
NextLib ==
    \/ LibSubsetNew
    \/ LibSubsetNewUnchecked
    \/ DropView

SpecLib == Init /\ [][NextLib]_vars

\* the callers that make a view with a mutable backing slice by checked calls
\* and write to the slice through set() and through the references of IterMut,
\* with the writes recorded in wrote
NextMut ==
    \/ MultiSubsetMutNew
    \/ UniqueSubsetMutNew
    \/ FromUniqueSubsetMutForMultiSubsetMut
    \/ TryFromMultiSubsetMutForUniqueSubsetMut
    \/ DropView
    \/ Set
    \/ SetWriteLogged
    \/ IterNew
    \/ IterMutNew
    \/ IterNext
    \/ IterNextBack
    \/ IterMutNext
    \/ IterMutNextBack
    \/ IterMutWrite
    \/ DropIter

SpecMut == Init /\ [][NextMut]_vars

(* ======================================================================= *)
(*                               properties                                *)
(* ======================================================================= *)
\* every index of i is a position of s
AllInBounds(s, i) == \A k \in 1..Len(i) : i[k] < Len(s)
\* the indices of i are pairwise distinct
Distinct(i) == \A a, b \in 1..Len(i) : a # b => i[a] # i[b]

MultiCtors  == {"multi::Subset::new", "multi::SubsetMut::new"}
UniqueCtors == {"unique::Subset::new", "unique::SubsetMut::new"}
Promotions  == {"TryFrom<multi::Subset> for unique::Subset",
                "TryFrom<multi::SubsetMut> for unique::Subset",
                "TryFrom<multi::SubsetMut> for unique::SubsetMut"}
Conversions == Promotions \cup Demotions \cup
               {"From<multi::SubsetMut> for multi::Subset",
                "From<unique::SubsetMut> for multi::Subset",
                "From<unique::SubsetMut> for unique::Subset",
                "multi::Subset::to_unique_unchecked",
                "multi::SubsetMut::to_unique_unchecked",
                "multi::SubsetMut::to_unique_mut_unchecked"}

\* the type a constructor or a promotion returns in Ok
TargetKind(op) ==
    CASE op = "multi::Subset::new" -> MultiSubset
      [] op = "multi::SubsetMut::new" -> MultiSubsetMut
      [] op = "unique::Subset::new" -> UniqueSubset
      [] op = "unique::SubsetMut::new" -> UniqueSubsetMut
      [] op = "TryFrom<multi::Subset> for unique::Subset" -> UniqueSubset
      [] op = "TryFrom<multi::SubsetMut> for unique::Subset" -> UniqueSubset
      [] op = "TryFrom<multi::SubsetMut> for unique::SubsetMut" -> UniqueSubsetMut
      [] OTHER -> "none"

\* the type a promotion takes
SourceKind(op) ==
    IF op = "TryFrom<multi::Subset> for unique::Subset" THEN MultiSubset
    ELSE MultiSubsetMut

(* C1: on an element type that is not zero-sized, multi::Subset::new and   *)
(* multi::SubsetMut::new return Ok, with a view of the given slices,       *)
(* exactly when every index is below the length of the backing slice; in   *)
(* every other case they return Err(OutOfBounds) and no view. Repeated     *)
(* indices do not matter and NotUnique is never returned.                  *)
C1_MultiNewOkIffInBounds ==
    (lastOp \in MultiCtors /\ elemSize # 0) =>
        /\ result \in {"Ok", "OutOfBounds"}
        /\ (result = "Ok") <=> AllInBounds(set, idxs)
        /\ result = "Ok" =>
             view = [kind |-> TargetKind(lastOp), set |-> set, idxs |-> idxs]
        /\ result # "Ok" => view = NoView

\* a multi constructor has accepted an index list with a repeated index
C1_Witness ==
    /\ lastOp \in MultiCtors
    /\ result = "Ok"
    /\ Len(idxs) = MaxLen
    /\ ~Distinct(idxs)

(* C2: on an element type that is not zero-sized, unique::Subset::new and  *)
(* unique::SubsetMut::new return Ok, with a view of the given slices,      *)
(* exactly when every index is below the length of the backing slice and   *)
(* the indices are pairwise distinct; in every other case they return      *)
(* Err(OutOfBounds) or Err(NotUnique) and no view.                         *)
C2_UniqueNewOkIffInBoundsAndDistinct ==
    (lastOp \in UniqueCtors /\ elemSize # 0) =>
        /\ result \in {"Ok", "OutOfBounds", "NotUnique"}
        /\ (result = "Ok") <=> (AllInBounds(set, idxs) /\ Distinct(idxs))
        /\ result = "Ok" =>
             view = [kind |-> TargetKind(lastOp), set |-> set, idxs |-> idxs]
        /\ result # "Ok" => view = NoView

\* a unique constructor has rejected in-range indices for a repetition
C2_Witness ==
    /\ lastOp \in UniqueCtors
    /\ result = "NotUnique"
    /\ AllInBounds(set, idxs)
    /\ Len(idxs) >= 2

(* C3: a view that was made by a checked constructor and has gone through  *)
(* safe conversions and set(), idxs(), is_unique(), iter(), iter_mut()     *)
(* calls only has every index below the length of its backing slice, and   *)
(* pairwise distinct indices when it is a unique::Subset or a              *)
(* unique::SubsetMut.                                                      *)
C3_ViewInvariants ==
    (safe /\ view.kind # "none") =>
        /\ AllInBounds(view.set, view.idxs)
        /\ view.kind \in UniqueKinds => Distinct(view.idxs)

\* a checked unique view that was demoted and promoted again
C3_Witness ==
    /\ safe
    /\ view.kind \in UniqueKinds
    /\ lastOp \in Promotions
    /\ origin.kind \in UniqueKinds
    /\ Len(view.idxs) >= 2

(* C4: the exclusive references one IterMut of a unique::SubsetMut made by *)
(* checked calls has yielded, from either end, refer to pairwise different *)
(* positions of the backing slice.                                         *)
C4_IterMutNoAliasing ==
    (safe /\ iter.kind = "IterMut") =>
        \A a, b \in 1..Len(yielded) : a # b => yielded[a].pos # yielded[b].pos

\* an IterMut of a checked view has yielded from the front and from the back
C4_Witness ==
    /\ safe
    /\ iter.kind = "IterMut"
    /\ Len(yielded) >= 2
    /\ yielded[1].end = "front"
    /\ yielded[2].end = "back"

\* every yield so far came from the end e, and so did the last call
OnlyFrom(e) ==
    /\ \A j \in 1..Len(yielded) : yielded[j].end = e
    /\ ret.end \in {e, "-"}

(* C5: on a view whose indices are all in range, an iter() consumed with   *)
(* next() only has yielded positions I[0], I[1], ... of the backing slice  *)
(* and the values S[I[0]], S[I[1]], ... in that order, and returns None    *)
(* only after all n of them; consumed with next_back() only it has yielded *)
(* I[n-1], I[n-2], ... and S[I[n-1]], S[I[n-2]], ... and returns None only *)
(* after all n. A repeated index is yielded once per occurrence.           *)
C5_IterOrder ==
    (iter.kind = "Iter" /\ AllInBounds(view.set, view.idxs)) =>
        LET n == Len(view.idxs) IN
        /\ OnlyFrom("front") =>
             /\ Len(yielded) <= n
             /\ \A j \in 1..Len(yielded) :
                  /\ yielded[j].tag = "Some"
                  /\ yielded[j].pos = view.idxs[j]
                  /\ yielded[j].val = view.set[view.idxs[j] + 1]
             /\ ret.tag = "None" => Len(yielded) = n
             /\ ret.tag = "Some" => ret = yielded[Len(yielded)]
        /\ OnlyFrom("back") =>
             /\ Len(yielded) <= n
             /\ \A j \in 1..Len(yielded) :
                  /\ yielded[j].tag = "Some"
                  /\ yielded[j].pos = view.idxs[n + 1 - j]
                  /\ yielded[j].val = view.set[view.idxs[n + 1 - j] + 1]
             /\ ret.tag = "None" => Len(yielded) = n
             /\ ret.tag = "Some" => ret = yielded[Len(yielded)]

\* an iter() over a list with a repeated index, consumed forward to None
C5_Witness ==
    /\ iter.kind = "Iter"
    /\ AllInBounds(view.set, view.idxs)
    /\ ~Distinct(view.idxs)
    /\ Len(yielded) = MaxLen
    /\ OnlyFrom("front")
    /\ ret.tag = "None"
    /\ \E a, b \in 1..Len(view.set) : view.set[a] # view.set[b]

\* what C6 says of a state
C6_Cursors ==
    (iter.kind # "none" /\ AllInBounds(view.set, view.idxs)) =>
        /\ iter.front <= iter.back
        /\ \A a, b \in 1..Len(yielded) : a # b => yielded[a].k # yielded[b].k
        /\ Len(yielded) <= Len(view.idxs)
        /\ Len(yielded) = iter.front + (Len(view.idxs) - iter.back)
        /\ ret.tag = "None" => Len(yielded) = Len(view.idxs)

\* what C6 says of a call on an iterator that has yielded all n positions
C6_ExhaustedStep ==
    ( /\ iter.kind # "none"
      /\ iter'.kind # "none"
      /\ AllInBounds(view.set, view.idxs)
      /\ Len(yielded) = Len(view.idxs)
      /\ ret' # ret ) =>
        /\ ret'.tag = "None"
        /\ yielded' = yielded

(* C6: for one Iter or IterMut over n in-range indices, however next() and *)
(* next_back() are interleaved: no position of the index list is yielded   *)
(* twice, the front cursor never passes the back cursor, at most n calls   *)
(* return Some, None is returned only after n calls have returned Some,    *)
(* and every call after those n returns None, from either end.             *)
C6_DoubleEnded == [] C6_Cursors /\ [][C6_ExhaustedStep]_vars

\* an iterator consumed from both ends that has then returned None
C6_Witness ==
    /\ iter.kind # "none"
    /\ AllInBounds(view.set, view.idxs)
    /\ Len(yielded) = MaxLen
    /\ yielded[1].end = "front"
    /\ yielded[2].end = "back"
    /\ ret.tag = "None"

(* C7: TryFrom from a multi view to a unique view returns Ok exactly when  *)
(* the indices of the view are pairwise distinct, and the view it returns  *)
(* has the backing slice and the index list of the source; otherwise it    *)
(* returns Err(NotUnique). Either way the source view is gone.             *)
C7_Promotion ==
    lastOp \in Promotions =>
        /\ src.kind = SourceKind(lastOp)
        /\ result \in {"Ok", "NotUnique"}
        /\ (result = "Ok") <=> Distinct(src.idxs)
        /\ result = "Ok" =>
             view = [kind |-> TargetKind(lastOp), set |-> src.set, idxs |-> src.idxs]
        /\ result # "Ok" => view = NoView

\* a multi::SubsetMut with a repeated index was refused as unique::Subset
C7_Witness ==
    /\ lastOp = "TryFrom<multi::SubsetMut> for unique::Subset"
    /\ result = "NotUnique"
    /\ Len(src.idxs) = MaxLen
    /\ view = NoView

(* C8: on an element type that is not zero-sized, unique::Subset::new and  *)
(* unique::SubsetMut::new return Err(OutOfBounds) whenever some index is   *)
(* out of range, also when an index is repeated, and Err(NotUnique) only   *)
(* when every index is in range and some index is repeated.                *)
C8_BoundsBeforeUniqueness ==
    (lastOp \in UniqueCtors /\ elemSize # 0) =>
        /\ ~AllInBounds(set, idxs) => result = "OutOfBounds"
        /\ result = "NotUnique" => (AllInBounds(set, idxs) /\ ~Distinct(idxs))

\* a unique constructor was given an out-of-range and a repeated index
C8_Witness ==
    /\ lastOp \in UniqueCtors
    /\ ~AllInBounds(set, idxs)
    /\ ~Distinct(idxs)
    /\ \E k \in 1..Len(idxs) : idxs[k] < Len(set)
    /\ result = "OutOfBounds"

\* lastOp promoted the multi view that the unique view `origin` was demoted to
RoundTrip ==
    \/ /\ lastOp = "TryFrom<multi::Subset> for unique::Subset"
       /\ origin.kind = UniqueSubset
    \/ /\ lastOp = "TryFrom<multi::SubsetMut> for unique::SubsetMut"
       /\ origin.kind = UniqueSubsetMut

(* C9: a unique view, made by checked calls or with pairwise distinct      *)
(* indices, that is demoted by From to the multi view of the same          *)
(* mutability and promoted again by TryFrom comes back Ok as a view of the *)
(* same type, backing slice and index list.                                *)
C9_RoundTrip ==
    (RoundTrip /\ (safe \/ Distinct(origin.idxs))) =>
        /\ result = "Ok"
        /\ view = origin

\* a unique::SubsetMut has made the round trip
C9_Witness ==
    /\ RoundTrip
    /\ safe
    /\ origin.kind = UniqueSubsetMut
    /\ Len(origin.idxs) >= 2
    /\ result = "Ok"

(* C10: no conversion (From, TryFrom, to_unique_unchecked,                 *)
(* to_unique_mut_unchecked) of a multi::Subset or a unique::Subset gives a *)
(* multi::SubsetMut or a unique::SubsetMut.                                *)
C10_NoMutabilityRegained ==
    (lastOp \in Conversions /\ src.kind \in ReadOnlyKinds) =>
        view.kind \notin MutableKinds

\* a read-only view was converted twice and is still read-only
C10_Witness ==
    /\ lastOp \in Conversions
    /\ origin.kind \in ReadOnlyKinds
    /\ src.kind \in ReadOnlyKinds
    /\ view.kind \in ReadOnlyKinds

\* what C11 says of a state: where the yielded references point, and that
\* a later set() or iter() reads what was stored through one of them
C11_Refs ==
    (safe /\ view.kind = UniqueSubsetMut) =>
        /\ iter.kind = "IterMut" =>
             \A j \in 1..Len(yielded) :
                /\ yielded[j].pos = view.idxs[yielded[j].k]
                /\ yielded[j].val = view.set[yielded[j].pos + 1]
                /\ OnlyFrom("front") => yielded[j].k = j
        /\ wrote.via = "ref" =>
             /\ view.set[wrote.pos + 1] = wrote.val
             /\ lastOp = "set" => got[wrote.pos + 1] = wrote.val
             /\ iter.kind = "Iter" =>
                  \A j \in 1..Len(yielded) :
                     yielded[j].pos = wrote.pos => yielded[j].val = wrote.val

\* what C11 says of a store through a yielded reference
C11_WriteStep ==
    ( /\ safe
      /\ wrote'.via = "ref"
      /\ (wrote' # wrote \/ view' # view) ) =>
        LET p == view.idxs[wrote'.k] IN
        /\ \E j \in 1..Len(yielded) : yielded[j].k = wrote'.k
        /\ wrote'.pos = p
        /\ view' = [view EXCEPT !.set[p + 1] = wrote'.val]
        /\ Len(view'.set) = Len(view.set)
        /\ set' = view'.set
        /\ idxs' = idxs
        /\ iter' = iter

(* C11: a store through a reference that the IterMut of a checked          *)
(* unique::SubsetMut yielded for position k of the index list changes the  *)
(* backing slice at position I[k] and nowhere else (the j-th reference     *)
(* taken from the front is the one for I[j]); the length of the backing    *)
(* slice and the index list stay as they are, and set() and iter() called  *)
(* afterwards read the stored value.                                       *)
C11_WritesThroughIterMut == [] C11_Refs /\ [][C11_WriteStep]_vars

\* set() called after a store through the second reference of an IterMut
C11_Witness ==
    /\ safe
    /\ view.kind = UniqueSubsetMut
    /\ wrote.via = "ref"
    /\ wrote.k = 2
    /\ lastOp = "set"
    /\ got[wrote.pos + 1] = wrote.val
    /\ \E p \in 1..Len(got) : got[p] # wrote.val

\* what C12 says of a state
C12_Reads ==
    (view.kind = MultiSubsetMut /\ iter.kind = "Iter") =>
        /\ \A a, b \in 1..Len(yielded) :
             view.idxs[yielded[a].k] = view.idxs[yielded[b].k] =>
                yielded[a].pos = yielded[b].pos
        /\ \A j \in 1..Len(yielded) :
             yielded[j].val = view.set[view.idxs[yielded[j].k] + 1]
        /\ wrote.via = "set" =>
             \A j \in 1..Len(yielded) :
                view.idxs[yielded[j].k] = wrote.pos => yielded[j].val = wrote.val

\* what C12 says of a store subset.set()[i] = v
C12_WriteStep ==
    ( /\ view.kind = MultiSubsetMut
      /\ wrote'.via = "set"
      /\ (wrote' # wrote \/ view' # view) ) =>
        /\ view' = [view EXCEPT !.set[wrote'.pos + 1] = wrote'.val]
        /\ set' = view'.set
        /\ idxs' = idxs

(* C12: on a multi::SubsetMut, iter() yields the same position of the      *)
(* backing slice for every occurrence of an index; a store                 *)
(* subset.set()[i] = v changes position i of the backing slice only and    *)
(* leaves the index list alone, and an iter() made afterwards yields v for *)
(* every occurrence of i and the values of the backing slice for the       *)
(* other indices.                                                          *)
C12_WriteThroughSet == [] C12_Reads /\ [][C12_WriteStep]_vars

\* after set()[i] = v, an iter() has yielded i twice and another index once
C12_Witness ==
    /\ view.kind = MultiSubsetMut
    /\ iter.kind = "Iter"
    /\ wrote.via = "set"
    /\ \E a, b, c \in 1..Len(yielded) :
         /\ a # b
         /\ yielded[a].pos = wrote.pos
         /\ yielded[b].pos = wrote.pos
         /\ yielded[c].pos # wrote.pos
         /\ yielded[c].val # wrote.val

(* C13: the crate root's Subset::new returns Err(NotUnique) whenever an     *)
(* index is repeated, also when an index is out of range; it returns       *)
(* Err(OutOfBounds) exactly when the indices are pairwise distinct and     *)
(* some index is >= the length of the backing Vec, and Ok, with a view of  *)
(* the two Vecs, exactly when they are pairwise distinct and all in range. *)
C13_LibUniquenessFirst ==
    lastOp = "subset::Subset::new" =>
        /\ result \in {"Ok", "NotUnique", "OutOfBounds"}
        /\ ~Distinct(idxs) => result = "NotUnique"
        /\ (result = "OutOfBounds") <=> (Distinct(idxs) /\ ~AllInBounds(set, idxs))
        /\ (result = "Ok") <=> (Distinct(idxs) /\ AllInBounds(set, idxs))
        /\ result = "Ok" => view = [kind |-> LibSubset, set |-> set, idxs |-> idxs]
        /\ result # "Ok" => view = NoView

\* the crate root's Subset::new was given a repeated and an out-of-range index
C13_Witness ==
    /\ lastOp = "subset::Subset::new"
    /\ ~Distinct(idxs)
    /\ ~AllInBounds(set, idxs)
    /\ \E k \in 1..Len(idxs) : idxs[k] < Len(set)
    /\ result = "NotUnique"

CheckedCtors   == MultiCtors \cup UniqueCtors
UncheckedCtors == {"multi::Subset::new_unchecked", "multi::SubsetMut::new_unchecked",
                   "unique::Subset::new_unchecked", "unique::SubsetMut::new_unchecked"}

(* C14 as stated: over a zero-sized element type every constructor of the  *)
(* multi and unique variants, new and new_unchecked, panics and returns    *)
(* neither a view nor an error, whatever the indices are.                  *)
C14_EveryCtorPanicsOnZst ==
    (elemSize = 0 /\ lastOp \in CheckedCtors \cup UncheckedCtors) =>
        /\ result = "Panic"
        /\ view = NoView

(* C14, amended: over a zero-sized element type the checked constructors   *)
(* (new of multi::Subset, multi::SubsetMut, unique::Subset and             *)
(* unique::SubsetMut) panic and return neither a view nor an error,        *)
(* whatever the indices are; the unchecked constructors (new_unchecked) do *)
(* not test the size of the element type and return a view of the slices.  *)
C14_NewPanicsOnZst ==
    elemSize = 0 =>
        /\ lastOp \in CheckedCtors => (result = "Panic" /\ view = NoView)
        /\ lastOp \in UncheckedCtors =>
             /\ result = "Ok"
             /\ view.kind # "none"
             /\ view.set = set
             /\ view.idxs = idxs

\* a checked constructor over a zero-sized type has panicked on an index list
\* with an out-of-range and a repeated index
C14_Witness ==
    /\ elemSize = 0
    /\ lastOp \in CheckedCtors
    /\ result = "Panic"
    /\ ~AllInBounds(set, idxs)
    /\ ~Distinct(idxs)

====
